---- MODULE Spec2Model ----
(***************************************************************************)
(* Model of scripts/run_etl.py: the three transforms (process_games,       *)
(* process_linescores, process_runner_play) as pure operators over data    *)
(* frames, and main() as a sequential state machine.                       *)
(*                                                                         *)
(* A data frame is a record [columns, rows]; rows is a sequence of records *)
(* in frame order.  A nullable cell is NaN (the empty tuple) or a          *)
(* one-element tuple <<v>>.  Python strings are TLA+ strings; where the    *)
(* code orders strings, the order is Python's: lexicographic by code       *)
(* point (Chars).                                                          *)
(***************************************************************************)
EXTENDS Integers, Sequences, FiniteSets, TLC

VARIABLES pc, files, df_games_raw, df_games, df_linescores_raw, df_linescores,
          df_runners_raw, df_runner_play, db, raised, log,
          dedup_once, dedup_twice, df_again

vars == <<pc, files, df_games_raw, df_games, df_linescores_raw, df_linescores,
          df_runners_raw, df_runner_play, db, raised, log,
          dedup_once, dedup_twice, df_again>>

(***************************************************************************)
(* Bounds of the model.                                                    *)
(***************************************************************************)
MaxGameRows == 2
MaxLineRows == 3
MaxSegments == 2

(***************************************************************************)
(* Cells and strings.                                                      *)
(***************************************************************************)
NaN == <<>>
IsNaN(c) == c = NaN
Val(c) == c[1]

\* Code points of the strings the frames hold (Python's str ordering).
Chars(s) ==
  CASE s = "2025-09-29" -> <<50, 48, 50, 53, 45, 48, 57, 45, 50, 57>>
    [] s = "2025-9-30"  -> <<50, 48, 50, 53, 45, 57, 45, 51, 48>>
    [] s = "2025-10-01" -> <<50, 48, 50, 53, 45, 49, 48, 45, 48, 49>>
    [] s = "TOP"        -> <<84, 79, 80>>
    [] s = "BOT"        -> <<66, 79, 84>>
    [] s = "B"          -> <<66>>
    [] s = "1B"         -> <<49, 66>>
    [] s = "2B"         -> <<50, 66>>
    [] s = "3B"         -> <<51, 66>>
    [] s = "4B"         -> <<52, 66>>
    [] s = "HM"         -> <<72, 77>>
    [] s = "score"      -> <<115, 99, 111, 114, 101>>
    [] s = "single"     -> <<115, 105, 110, 103, 108, 101>>
    [] s = "home_run"   -> <<104, 111, 109, 101, 95, 114, 117, 110>>
    [] s = "r_adv_play" -> <<114, 95, 97, 100, 118, 95, 112, 108, 97, 121>>

\* a < b for two sequences of code points
SeqLess(a, b) ==
  \E i \in 1..Len(b) :
     /\ \A j \in 1..(i - 1) : j <= Len(a) /\ a[j] = b[j]
     /\ (i > Len(a) \/ (i <= Len(a) /\ a[i] < b[i]))
     /\ i - 1 <= Len(a)

Strings == {"2025-09-29", "2025-9-30", "2025-10-01", "TOP", "BOT", "B", "1B", "2B",
            "3B", "4B", "HM", "score", "single", "home_run", "r_adv_play"}

\* the position of each string in Python's order of the strings above
StrRank == [s \in Strings |->
              Cardinality({t \in Strings : SeqLess(Chars(t), Chars(s))})]

StrLess(s, t) == StrRank[s] < StrRank[t]

\* ordering of nullable numeric cells, ascending, NaN last (na_position="last")
NumCellLess(x, y) == ~IsNaN(x) /\ (IsNaN(y) \/ Val(x) < Val(y))

\* ordering of nullable string cells, ascending, NaN last
StrCellLess(x, y) == ~IsNaN(x) /\ (IsNaN(y) \/ StrLess(Val(x), Val(y)))

(***************************************************************************)
(* DataFrame.sort_values on several columns (a stable lexsort) and         *)
(* DataFrame.drop_duplicates(keep="first").                                *)
(***************************************************************************)
\* the pairs of row indices of a frame
Pairs(rows) == (1..Len(rows)) \X (1..Len(rows))

\* less holds the pairs <<i, j>> for which row i sorts before row j on the sort
\* columns; rows that tie keep their frame order
SortValues(rows, less) ==
  LET n == Len(rows)
      rank == [i \in 1..n |->
                 1 + Cardinality({j \in 1..n :
                        \/ <<j, i>> \in less
                        \/ (<<i, j>> \notin less /\ j < i)})]
  IN  [k \in 1..n |-> rows[CHOOSE i \in 1..n : rank[i] = k]]

\* the rows at the indices in keep, in frame order
TakeRows(rows, keep) ==
  LET pos(i) == Cardinality({j \in keep : j <= i})
  IN  [k \in 1..Cardinality(keep) |-> rows[CHOOSE i \in keep : pos(i) = k]]

\* keys[i] is the value of row i on the subset columns
DropDuplicates(rows, keys) ==
  TakeRows(rows, {i \in 1..Len(rows) : \A j \in 1..(i - 1) : keys[j] # keys[i]})

DropColumn(row, col) == [c \in (DOMAIN row) \ {col} |-> row[c]]

(***************************************************************************)
(* Transform: games (process_games).                                       *)
(***************************************************************************)
GameColumns == {"gamePk", "status", "source_folder_date"}

NoFrame == [columns |-> {}, rows |-> <<>>]

\* sort_values(["gamePk", "source_folder_date"], ascending=[True, False])
GamesLess(a, b) ==
  \/ NumCellLess(a.gamePk, b.gamePk)
  \/ (a.gamePk = b.gamePk /\ StrLess(b.source_folder_date, a.source_folder_date))

GameKey(r) == r.gamePk

\* the deduplication stage of process_games: sort, then keep the first row per gamePk
DedupGames(rows) ==
  LET sorted == SortValues(rows, {p \in Pairs(rows) : GamesLess(rows[p[1]], rows[p[2]])})
  IN  DropDuplicates(sorted, [i \in 1..Len(sorted) |-> GameKey(sorted[i])])

\* process_games without the final drop of the batch column
process_games_keep_tag(df) ==
  IF ~({"gamePk", "source_folder_date"} \subseteq df.columns)
  THEN [raised |-> "KeyError", value |-> NoFrame]
  ELSE [raised |-> "",
        value  |-> [columns |-> df.columns, rows |-> DedupGames(df.rows)]]

\* sort_values raises KeyError when a sort column is absent;
\* drop(columns=["source_folder_date"], errors="ignore")
process_games(df) ==
  IF ~({"gamePk", "source_folder_date"} \subseteq df.columns)
  THEN [raised |-> "KeyError", value |-> NoFrame]
  ELSE LET kept == DedupGames(df.rows)
       IN  [raised |-> "",
            value  |-> [columns |-> df.columns \ {"source_folder_date"},
                        rows    |-> [i \in 1..Len(kept) |->
                                       DropColumn(kept[i], "source_folder_date")]]]

(***************************************************************************)
(* Specification of the games transform: a raw games frame, the            *)
(* deduplication stage applied once and again, process_games applied once  *)
(* and again to its own result.                                            *)
(***************************************************************************)
GamePks == {NaN, <<1>>, <<2>>}
\* folder names: load_all_csvs takes the name of the folder as it is, whatever its
\* format, so a name may or may not be zero-padded
GameBatches == {"2025-09-29", "2025-9-30", "2025-10-01"}
GameRow == [gamePk : GamePks, status : {"Scheduled", "Final"},
            source_folder_date : GameBatches]
GameFrames == {[columns |-> GameColumns, rows |-> rs] :
                 rs \in UNION {[1..n -> GameRow] : n \in 1..MaxGameRows}}

InitGames ==
  /\ pc = "dedup"
  /\ df_games_raw \in GameFrames
  /\ df_games = NoFrame
  /\ dedup_once = <<>>
  /\ dedup_twice = <<>>
  /\ df_again = NoFrame
  /\ raised = ""
  /\ files = <<>>
  /\ df_linescores_raw = NoFrame
  /\ df_linescores = NoFrame
  /\ df_runners_raw = NoFrame
  /\ df_runner_play = NoFrame
  /\ db = <<>>
  /\ log = <<>>

GamesDedup ==
  /\ pc = "dedup"
  /\ dedup_once' = DedupGames(df_games_raw.rows)
  /\ pc' = "dedup_again"
  /\ UNCHANGED <<files, df_games_raw, df_games, df_linescores_raw, df_linescores,
                 df_runners_raw, df_runner_play, db, raised, log, dedup_twice, df_again>>

GamesDedupAgain ==
  /\ pc = "dedup_again"
  /\ dedup_twice' = DedupGames(dedup_once)
  /\ pc' = "process_games"
  /\ UNCHANGED <<files, df_games_raw, df_games, df_linescores_raw, df_linescores,
                 df_runners_raw, df_runner_play, db, raised, log, dedup_once, df_again>>

GamesProcess ==
  /\ pc = "process_games"
  /\ LET r == process_games(df_games_raw)
     IN  /\ df_games' = r.value
         /\ raised' = r.raised
  /\ pc' = "process_games_again"
  /\ UNCHANGED <<files, df_games_raw, df_linescores_raw, df_linescores,
                 df_runners_raw, df_runner_play, db, log, dedup_once, dedup_twice,
                 df_again>>

GamesProcessAgain ==
  /\ pc = "process_games_again"
  /\ raised = ""
  /\ LET r == process_games(df_games)
     IN  /\ df_again' = r.value
         /\ raised' = r.raised
  /\ pc' = "games_done"
  /\ UNCHANGED <<files, df_games_raw, df_games, df_linescores_raw, df_linescores,
                 df_runners_raw, df_runner_play, db, log, dedup_once, dedup_twice>>

NextGames == GamesDedup \/ GamesDedupAgain \/ GamesProcess \/ GamesProcessAgain

SpecGames == InitGames /\ [][NextGames]_vars

(***************************************************************************)
(* Claims about the games transform.                                       *)
(***************************************************************************)
\* the number a sequence of decimal digits denotes
RECURSIVE Num(_)
Num(ds) == IF ds = <<>> THEN 0
           ELSE 10 * Num(SubSeq(ds, 1, Len(ds) - 1)) + (ds[Len(ds)] - 48)

\* a folder name "Y-M-D" read as a calendar date <<Y, M, D>>
DateOf(s) ==
  LET cs == Chars(s)
      dashes == {i \in 1..Len(cs) : cs[i] = 45}
      d1 == CHOOSE i \in dashes : \A j \in dashes : i <= j
      d2 == CHOOSE i \in dashes : \A j \in dashes : j <= i
  IN  <<Num(SubSeq(cs, 1, d1 - 1)), Num(SubSeq(cs, d1 + 1, d2 - 1)),
        Num(SubSeq(cs, d2 + 1, Len(cs)))>>

DateLess(a, b) ==
  \/ a[1] < b[1]
  \/ (a[1] = b[1] /\ a[2] < b[2])
  \/ (a[1] = b[1] /\ a[2] = b[2] /\ a[3] < b[3])

GamesProcessed == pc \in {"process_games_again", "games_done"}

RowsWithKey(rows, k) == {i \in 1..Len(rows) : rows[i].gamePk = k}

\* C1 (games): for every gamePk of the raw frame exactly one row of the result has
\* it, and that row's non-key field is the one of a raw row with that gamePk whose
\* folder name, read as a date, is the latest.
C1_FreshestByDate ==
  GamesProcessed =>
    \A i \in 1..Len(df_games_raw.rows) :
      LET raw == df_games_raw.rows
          k == raw[i].gamePk
          out == RowsWithKey(df_games.rows, k)
      IN  ~IsNaN(k) =>
          /\ Cardinality(out) = 1
          /\ \A o \in out :
               \E w \in RowsWithKey(raw, k) :
                 /\ \A j \in RowsWithKey(raw, k) :
                      ~DateLess(DateOf(raw[w].source_folder_date),
                                DateOf(raw[j].source_folder_date))
                 /\ df_games.rows[o].status = raw[w].status

\* every row of the raw games frame has a gamePk
KeyedGames == \A i \in 1..Len(df_games_raw.rows) : ~IsNaN(df_games_raw.rows[i].gamePk)

C10_NoNullKeyInGames ==
  GamesProcessed => \A i \in 1..Len(df_games.rows) : ~IsNaN(df_games.rows[i].gamePk)

(***************************************************************************)
(* Transform: linescores (process_linescores).                             *)
(***************************************************************************)
\* sort_values(["gamePk", "inning", "half", "source_folder_date"],
\*             ascending=[True, True, True, False])
LinesDedupLess(a, b) ==
  \/ NumCellLess(a.gamePk, b.gamePk)
  \/ (a.gamePk = b.gamePk /\ a.inning < b.inning)
  \/ (a.gamePk = b.gamePk /\ a.inning = b.inning /\ StrLess(a.half, b.half))
  \/ (a.gamePk = b.gamePk /\ a.inning = b.inning /\ a.half = b.half
        /\ StrLess(b.source_folder_date, a.source_folder_date))

LineKey(r) == <<r.gamePk, r.inning, r.half>>

DedupLines(rows) ==
  LET sorted == SortValues(rows, {p \in Pairs(rows) :
                                    LinesDedupLess(rows[p[1]], rows[p[2]])})
  IN  DropDuplicates(sorted, [i \in 1..Len(sorted) |-> LineKey(sorted[i])])

\* df["runs"].fillna(0).astype(int)
FillRuns(r) == [r EXCEPT !.runs = IF IsNaN(r.runs) THEN 0 ELSE Val(r.runs)]

\* sort_values(["gamePk", "inning", "half"]): half is ordered as a string
LinesChronoLess(a, b) ==
  \/ NumCellLess(a.gamePk, b.gamePk)
  \/ (a.gamePk = b.gamePk /\ a.inning < b.inning)
  \/ (a.gamePk = b.gamePk /\ a.inning = b.inning /\ StrLess(a.half, b.half))

RECURSIVE SumRuns(_, _)
SumRuns(rows, idx) ==
  IF idx = {} THEN 0
  ELSE LET i == CHOOSE i \in idx : TRUE
       IN  rows[i].runs + SumRuns(rows, idx \ {i})

\* groupby(keys)["runs"].cumsum() at row i, group being the rows of the group of
\* row i; groupby leaves out the rows whose gamePk is NaN (dropna=True), which get NaN
CumRuns(rows, i, group) ==
  IF IsNaN(rows[i].gamePk) THEN NaN
  ELSE <<SumRuns(rows, {j \in group : j <= i})>>

\* groupby(keys)[col].shift(1).fillna(0).astype(int) at row i: the column's value
\* at the previous row of the group, 0 when there is none
ShiftedCum(rows, i, group) ==
  LET before == {j \in group : j < i}
  IN  IF IsNaN(rows[i].gamePk) \/ before = {} THEN 0
      ELSE LET prev == CHOOSE j \in before : \A k \in before : k <= j
           IN  Val(CumRuns(rows, prev, group))

\* the rows of the group of row i under groupby(["gamePk", "battingteamid"])
SameGameTeam(rows, i) ==
  {j \in 1..Len(rows) : /\ rows[j].gamePk = rows[i].gamePk
                         /\ rows[j].battingteamid = rows[i].battingteamid}

\* the rows of the group of row i under groupby("gamePk")
SameGame(rows, i) == {j \in 1..Len(rows) : rows[j].gamePk = rows[i].gamePk}

process_linescores(df) ==
  LET kept == DedupLines(df.rows)
      filled == [i \in 1..Len(kept) |-> FillRuns(kept[i])]
      rows == SortValues(filled, {p \in Pairs(filled) :
                                    LinesChronoLess(filled[p[1]], filled[p[2]])})
      score(i) == ShiftedCum(rows, i, SameGameTeam(rows, i))
      total(i) == ShiftedCum(rows, i, SameGame(rows, i))
  IN  [columns |-> (df.columns \ {"source_folder_date"})
                     \cup {"battingteam_score", "battingteam_score_diff"},
       rows |-> [i \in 1..Len(rows) |->
                  [gamePk |-> rows[i].gamePk,
                   inning |-> rows[i].inning,
                   half |-> rows[i].half,
                   battingteamid |-> rows[i].battingteamid,
                   runs |-> rows[i].runs,
                   battingteam_score |-> score(i),
                   battingteam_score_diff |-> score(i) - (total(i) - score(i))]]]

(***************************************************************************)
(* Specification of the linescores transform.  In each raw row the away    *)
(* team ("A") bats in the top half and the home team ("B") in the bottom.  *)
(***************************************************************************)
LineColumns == {"gamePk", "inning", "half", "battingteamid", "runs",
                "source_folder_date"}
LineBatches == {"2025-09-29", "2025-10-01"}
LineRow == {[gamePk |-> g, inning |-> n, half |-> h,
             battingteamid |-> IF h = "TOP" THEN "A" ELSE "B",
             runs |-> r, source_folder_date |-> d] :
              g \in {<<1>>, NaN}, n \in {1, 2}, h \in {"TOP", "BOT"},
              r \in {NaN, <<-1>>, <<0>>, <<2>>}, d \in LineBatches}
LineFrames == {[columns |-> LineColumns, rows |-> rs] :
                 rs \in UNION {[1..n -> LineRow] : n \in 1..MaxLineRows}}

InitLines ==
  /\ pc = "process_linescores"
  /\ df_linescores_raw \in LineFrames
  /\ df_linescores = NoFrame
  /\ df_games_raw = NoFrame
  /\ df_games = NoFrame
  /\ dedup_once = <<>>
  /\ dedup_twice = <<>>
  /\ df_again = NoFrame
  /\ raised = ""
  /\ files = <<>>
  /\ df_runners_raw = NoFrame
  /\ df_runner_play = NoFrame
  /\ db = <<>>
  /\ log = <<>>

LinesProcess ==
  /\ pc = "process_linescores"
  /\ df_linescores' = process_linescores(df_linescores_raw)
  /\ pc' = "lines_done"
  /\ UNCHANGED <<files, df_games_raw, df_games, df_linescores_raw,
                 df_runners_raw, df_runner_play, db, raised, log, dedup_once,
                 dedup_twice, df_again>>

NextLines == LinesProcess

SpecLines == InitLines /\ [][NextLines]_vars

(***************************************************************************)
(* Claims about the linescores transform.                                  *)
(***************************************************************************)
\* half-inning p is played before half-inning o of the same game
PlayedBefore(p, o) ==
  \/ p.inning < o.inning
  \/ (p.inning = o.inning /\ p.half = "TOP" /\ o.half = "BOT")

\* the raw frame has a gamePk in every row and no missing or negative runs
CleanLines ==
  \A i \in 1..Len(df_linescores_raw.rows) :
    LET r == df_linescores_raw.rows[i]
    IN  ~IsNaN(r.gamePk) /\ ~IsNaN(r.runs) /\ Val(r.runs) >= 0

EarlierRuns(out, o, sameTeam) ==
  SumRuns(out, {p \in 1..Len(out) :
                  /\ out[p].gamePk = out[o].gamePk
                  /\ (out[p].battingteamid = out[o].battingteamid) = sameTeam
                  /\ PlayedBefore(out[p], out[o])})

\* C2: every row of the result has battingteam_score = the runs of the earlier
\* half-innings of its game batted by its team, and battingteam_score_diff = that
\* minus the runs of the earlier half-innings batted by the other team, the top of
\* an inning being earlier than its bottom (here already on raw frames with no
\* null gamePk and no missing or negative runs).
C2_ScoreAtStartOfHalfInning ==
  (pc = "lines_done" /\ CleanLines) =>
    \A o \in 1..Len(df_linescores.rows) :
      LET out == df_linescores.rows
      IN  /\ out[o].battingteam_score = EarlierRuns(out, o, TRUE)
          /\ out[o].battingteam_score_diff
               = EarlierRuns(out, o, TRUE) - EarlierRuns(out, o, FALSE)

\* C3: the row of the top of a game's lowest inning has battingteam_score = 0 and
\* battingteam_score_diff = 0, whatever the other half-innings record (here already
\* on raw frames with no null gamePk and no missing or negative runs).
C3_FirstHalfInningZero ==
  (pc = "lines_done" /\ CleanLines) =>
    \A o \in 1..Len(df_linescores.rows) :
      LET out == df_linescores.rows
      IN  (/\ out[o].half = "TOP"
           /\ \A p \in 1..Len(out) :
                out[p].gamePk = out[o].gamePk => out[o].inning <= out[p].inning)
          => (out[o].battingteam_score = 0 /\ out[o].battingteam_score_diff = 0)

\* C7: every row of the result (here already every row that has a gamePk) has
\* runs >= 0 and battingteam_score >= 0, whatever the raw runs are.
C7_RunsNeverNegative ==
  pc = "lines_done" =>
    \A o \in 1..Len(df_linescores.rows) :
      ~IsNaN(df_linescores.rows[o].gamePk) =>
        (df_linescores.rows[o].runs >= 0 /\ df_linescores.rows[o].battingteam_score >= 0)

(***************************************************************************)
(* Transform: runner_play (process_runner_play).                           *)
(***************************************************************************)
\* BASE_MAP_REPLACE, applied by Series.replace
BASE_MAP_REPLACE(b) == IF b \in {"score", "4B"} THEN "HM" ELSE b

\* sort_values(["gamePk", "atBatIndex", "playIndex", "runnerid", "start", "end",
\*              "source_folder_date"], ascending=[True]*6 + [False])
SegmentsDedupLess(a, b) ==
  LET ka == <<a.gamePk, a.atBatIndex, a.playIndex, a.runnerid>>
      kb == <<b.gamePk, b.atBatIndex, b.playIndex, b.runnerid>>
  IN  \/ NumCellLess(a.gamePk, b.gamePk)
      \/ (a.gamePk = b.gamePk /\ a.atBatIndex < b.atBatIndex)
      \/ (a.gamePk = b.gamePk /\ a.atBatIndex = b.atBatIndex
            /\ a.playIndex < b.playIndex)
      \/ (a.gamePk = b.gamePk /\ a.atBatIndex = b.atBatIndex
            /\ a.playIndex = b.playIndex /\ a.runnerid < b.runnerid)
      \/ (ka = kb /\ StrCellLess(a.start, b.start))
      \/ (ka = kb /\ a.start = b.start /\ StrCellLess(a.end, b.end))
      \/ (ka = kb /\ a.start = b.start /\ a.end = b.end
            /\ StrLess(b.source_folder_date, a.source_folder_date))

SegmentKey(r) == <<r.gamePk, r.atBatIndex, r.playIndex, r.runnerid, r.start, r.end>>

DedupSegments(rows) ==
  LET sorted == SortValues(rows, {p \in Pairs(rows) :
                                    SegmentsDedupLess(rows[p[1]], rows[p[2]])})
  IN  DropDuplicates(sorted, [i \in 1..Len(sorted) |-> SegmentKey(sorted[i])])

\* fillna("B")
FillBase(c) == IF IsNaN(c) THEN "B" ELSE Val(c)

\* rename originBase/end/isOut, lowercase the column names, fill the empty bases,
\* standardize the home representation of endbase
NormalizeSegment(r) ==
  [gamepk |-> r.gamePk, atbatindex |-> r.atBatIndex, playindex |-> r.playIndex,
   runnerid |-> r.runnerid, runnerfullname |-> r.runnerfullname,
   startbase |-> FillBase(r.originBase), start |-> FillBase(r.start),
   endbase |-> BASE_MAP_REPLACE(FillBase(r.end)), is_out |-> r.isOut,
   eventtype |-> r.eventtype, movementreason |-> r.movementreason,
   playid |-> r.playid]

\* sort_values(["gamepk", "atbatindex", "playindex"])
SegmentsChronoLess(a, b) ==
  \/ NumCellLess(a.gamepk, b.gamepk)
  \/ (a.gamepk = b.gamepk /\ a.atbatindex < b.atbatindex)
  \/ (a.gamepk = b.gamepk /\ a.atbatindex = b.atbatindex /\ a.playindex < b.playindex)

PlayKey(r) == <<r.gamepk, r.atbatindex, r.playindex, r.runnerid>>

\* sorted(set(vals)) of a set of strings
SortedLabels(labels) ==
  [k \in 1..Cardinality(labels) |->
     CHOOSE l \in labels : Cardinality({m \in labels : StrLess(m, l)}) = k - 1]

\* uniq_join_keep_dups over the cells of one column of a group: None (NaN) when no
\* cell holds a non-empty string, else the sorted distinct labels joined by commas
\* (the joined string is kept as the sequence of its comma-separated labels)
uniq_join_keep_dups(cells) ==
  LET vals == {Val(cells[i]) : i \in {j \in 1..Len(cells) : ~IsNaN(cells[j])}} \ {""}
  IN  IF vals = {} THEN NaN ELSE <<SortedLabels(vals)>>

\* reachedbase with the first safe segment taken in place of the last
calculate_reached_base_first(group) ==
  LET safe == {i \in 1..Len(group) : group[i].is_out = FALSE}
  IN  IF safe # {}
      THEN group[CHOOSE i \in safe : \A j \in safe : i <= j].endbase
      ELSE group[1].startbase

calculate_reached_base(group) ==
  LET safe == {i \in 1..Len(group) : group[i].is_out = FALSE}
  IN  IF safe # {}
      THEN group[CHOOSE i \in safe : \A j \in safe : j <= i].endbase
      ELSE group[1].startbase

\* str.contains(pat) on one label: pat occurs in it as a contiguous substring
HasSubstring(label, pat) ==
  LET l == Chars(label)
      q == Chars(pat)
  IN  \E k \in 1..(Len(l) - Len(q) + 1) : SubSeq(l, k, k + Len(q) - 1) = q

\* ~out["eventtype"].str.contains("home_run", na=False); the pattern holds no
\* comma, so it occurs in the joined string iff it occurs in one of the labels
NoHomeRun(eventtype) ==
  IsNaN(eventtype)
    \/ \A i \in 1..Len(Val(eventtype)) : ~HasSubstring(Val(eventtype)[i], "home_run")

\* is_firsttothird without the is_out condition
is_firsttothird_ignoring_out(startbase, reachedbase, eventtype, is_out) ==
  startbase = "1B" /\ reachedbase = "3B" /\ NoHomeRun(eventtype)

is_firsttothird(startbase, reachedbase, eventtype, is_out) ==
  startbase = "1B" /\ reachedbase = "3B" /\ NoHomeRun(eventtype) /\ is_out = FALSE

is_secondtohome(startbase, reachedbase, eventtype, is_out) ==
  startbase = "2B" /\ reachedbase = "HM" /\ NoHomeRun(eventtype) /\ is_out = FALSE

is_risp(startbase) == startbase \in {"2B", "3B"}

\* the rows of the sorted frame, after deduplication and normalization
SortedSegments(df) ==
  LET kept == DedupSegments(df.rows)
      named == [i \in 1..Len(kept) |-> NormalizeSegment(kept[i])]
  IN  SortValues(named, {p \in Pairs(named) :
                           SegmentsChronoLess(named[p[1]], named[p[2]])})

\* the rows of one group, in frame order
GroupRows(rows, key) == TakeRows(rows, {i \in 1..Len(rows) : PlayKey(rows[i]) = key})

\* grouped.agg(...) for one group, then the derived metrics
AggregatePlay(group) ==
  LET startbase == group[1].startbase
      reachedbase == calculate_reached_base(group)
      eventtype == uniq_join_keep_dups([i \in 1..Len(group) |-> group[i].eventtype])
      is_out == \E i \in 1..Len(group) : group[i].is_out
  IN  [gamepk |-> group[1].gamepk, atbatindex |-> group[1].atbatindex,
       playindex |-> group[1].playindex, runnerid |-> group[1].runnerid,
       startbase |-> startbase,
       endbase |-> group[Len(group)].endbase,
       runnerfullname |-> group[1].runnerfullname,
       reachedbase |-> reachedbase,
       eventtype |-> eventtype,
       movementreason |->
         uniq_join_keep_dups([i \in 1..Len(group) |-> group[i].movementreason]),
       is_out |-> is_out,
       playid |-> group[1].playid,
       is_risp |-> is_risp(startbase),
       is_firsttothird |-> is_firsttothird(startbase, reachedbase, eventtype, is_out),
       is_secondtohome |-> is_secondtohome(startbase, reachedbase, eventtype, is_out)]

\* groupby([...], sort=False): one row per group, in the order in which the groups
\* first appear; rows with a NaN gamepk belong to no group (dropna=True)
process_runner_play(df) ==
  LET rows == SortedSegments(df)
      firsts == {i \in 1..Len(rows) :
                   /\ ~IsNaN(rows[i].gamepk)
                   /\ \A j \in 1..(i - 1) : PlayKey(rows[j]) # PlayKey(rows[i])}
      heads == TakeRows(rows, firsts)
  IN  [columns |-> {"gamepk", "atbatindex", "playindex", "runnerid", "startbase",
                    "endbase", "runnerfullname", "reachedbase", "eventtype",
                    "movementreason", "is_out", "playid", "is_risp",
                    "is_firsttothird", "is_secondtohome"},
       rows |-> [g \in 1..Len(heads) |->
                   AggregatePlay(GroupRows(rows, PlayKey(heads[g])))]]

(***************************************************************************)
(* Specification of the runner_play transform: one play of one game, the   *)
(* batter (no origin base) and the runner who starts the play on first.    *)
(***************************************************************************)
RunnerColumns == {"gamePk", "atBatIndex", "playIndex", "runnerid", "runnerfullname",
                  "originBase", "start", "end", "isOut", "eventtype",
                  "movementreason", "playid", "source_folder_date"}
RunnerBatches == {"2025-09-29", "2025-10-01"}
\* the batter reaches first and may go on to second; the runner on first advances
\* by one or two bases, and may go on to third and to home
BatterLegs == {<<NaN, <<"1B">>>>, <<<<"1B">>, <<"2B">>>>}
RunnerLegs == {<<<<"1B">>, <<"2B">>>>, <<<<"1B">>, <<"3B">>>>, <<<<"2B">>, <<"3B">>>>,
               <<<<"3B">>, <<"score">>>>}
Movements ==
  {[runnerid |-> 7, runnerfullname |-> "Batter", originBase |-> NaN, leg |-> l] :
     l \in BatterLegs}
  \cup {[runnerid |-> 8, runnerfullname |-> "Runner", originBase |-> <<"1B">>, leg |-> l] :
          l \in RunnerLegs}
SegmentRow ==
  {[gamePk |-> <<1>>, atBatIndex |-> 0, playIndex |-> 0,
    runnerid |-> m.runnerid, runnerfullname |-> m.runnerfullname,
    originBase |-> m.originBase, start |-> m.leg[1], end |-> m.leg[2],
    isOut |-> o, eventtype |-> <<e>>, movementreason |-> <<"r_adv_play">>,
    playid |-> "p0", source_folder_date |-> d] :
     m \in Movements, o \in BOOLEAN, e \in {"single", "home_run"}, d \in RunnerBatches}
RunnerFrames == {[columns |-> RunnerColumns, rows |-> rs] :
                   rs \in UNION {[1..n -> SegmentRow] : n \in 1..MaxSegments}}

InitRunners ==
  /\ pc = "process_runner_play"
  /\ df_runners_raw \in RunnerFrames
  /\ df_runner_play = NoFrame
  /\ df_games_raw = NoFrame
  /\ df_games = NoFrame
  /\ df_linescores_raw = NoFrame
  /\ df_linescores = NoFrame
  /\ dedup_once = <<>>
  /\ dedup_twice = <<>>
  /\ df_again = NoFrame
  /\ raised = ""
  /\ files = <<>>
  /\ db = <<>>
  /\ log = <<>>

RunnersProcess ==
  /\ pc = "process_runner_play"
  /\ df_runner_play' = process_runner_play(df_runners_raw)
  /\ pc' = "runners_done"
  /\ UNCHANGED <<files, df_games_raw, df_games, df_linescores_raw, df_linescores,
                 df_runners_raw, db, raised, log, dedup_once, dedup_twice, df_again>>

NextRunners == RunnersProcess

SpecRunners == InitRunners /\ [][NextRunners]_vars

(***************************************************************************)
(* Claims about the runner_play transform.                                 *)
(***************************************************************************)
\* the segments merged into row r of the result, in the order of the sorted frame
GroupOf(r) == GroupRows(SortedSegments(df_runners_raw), PlayKey(r))

\* C4: a play all of whose segments record the runner out has reachedbase =
\* startbase; a play with a segment that is not out has reachedbase = the end base
\* of the last such segment in the group's order.
C4_ReachedBase ==
  pc = "runners_done" =>
    \A k \in 1..Len(df_runner_play.rows) :
      LET r == df_runner_play.rows[k]
          g == GroupOf(r)
      IN  /\ (\A i \in 1..Len(g) : g[i].is_out) => r.reachedbase = r.startbase
          /\ (\E i \in 1..Len(g) : ~g[i].is_out) =>
               \E i \in 1..Len(g) :
                 /\ ~g[i].is_out
                 /\ \A j \in (i + 1)..Len(g) : g[j].is_out
                 /\ r.reachedbase = g[i].endbase

\* a play whose two segments are both out next to a play whose segment is safe
C4_Witness ==
  /\ pc = "runners_done"
  /\ \E k \in 1..Len(df_runner_play.rows) :
       LET r == df_runner_play.rows[k]
       IN  /\ \A i \in 1..Len(GroupOf(r)) : GroupOf(r)[i].is_out
           /\ r.reachedbase = r.startbase
           /\ r.endbase # r.startbase
  /\ \E k \in 1..Len(df_runner_play.rows) :
       LET r == df_runner_play.rows[k]
       IN  /\ \E i \in 1..Len(GroupOf(r)) : ~GroupOf(r)[i].is_out
           /\ r.reachedbase # r.startbase

\* C5 as stated: a merged record with startbase 1B, reachedbase 3B and no home-run
\* event type has is_firsttothird true and is_risp false, whatever its other
\* segments record.
C5_FirstToThirdRegardless ==
  pc = "runners_done" =>
    \A k \in 1..Len(df_runner_play.rows) :
      LET r == df_runner_play.rows[k]
      IN  (r.startbase = "1B" /\ r.reachedbase = "3B" /\ NoHomeRun(r.eventtype))
            => (r.is_firsttothird /\ ~r.is_risp)

\* C5 as amended: a merged record with startbase 1B, reachedbase 3B and no home-run
\* event type has is_risp false, and has is_firsttothird true exactly when none of
\* the segments of the play records the runner out.
C5_FirstToThirdUnlessOut ==
  pc = "runners_done" =>
    \A k \in 1..Len(df_runner_play.rows) :
      LET r == df_runner_play.rows[k]
          g == GroupOf(r)
      IN  (r.startbase = "1B" /\ r.reachedbase = "3B" /\ NoHomeRun(r.eventtype))
            => /\ ~r.is_risp
               /\ r.is_firsttothird = (\A i \in 1..Len(g) : ~g[i].is_out)

\* the runner on first goes to second and on to third, safe both times
C5_Witness ==
  /\ pc = "runners_done"
  /\ \E k \in 1..Len(df_runner_play.rows) :
       LET r == df_runner_play.rows[k]
       IN  /\ r.startbase = "1B" /\ r.reachedbase = "3B" /\ NoHomeRun(r.eventtype)
           /\ Len(GroupOf(r)) = 2
           /\ GroupOf(r)[1].endbase = GroupOf(r)[2].start
           /\ ~r.is_out
           /\ r.is_firsttothird /\ ~r.is_risp

\* the deduplicated raw segments of the play of row r
RawSegmentsOf(r) ==
  LET kept == DedupSegments(df_runners_raw.rows)
  IN  {kept[i] : i \in {j \in 1..Len(kept) : PlayKey(NormalizeSegment(kept[j])) = PlayKey(r)}}

\* segs is a movement chain from its first to its last segment: the first starts at
\* the runner's origin base (missing for a batter), each other segment starts where
\* exactly one segment ends
IsChain(segs, first, last) ==
  /\ first \in segs /\ last \in segs
  /\ first.start = first.originBase
  /\ \A t \in segs \ {first} : Cardinality({u \in segs : u.end = t.start}) = 1
  /\ \A u \in segs \ {last} : Cardinality({t \in segs : u.end = t.start}) = 1
  /\ \A u \in segs : u.end # first.start /\ u.start # last.end

\* C6: a play whose segments form a movement chain is merged to startbase = the
\* start base of the chain's first segment and endbase = the end base of its last.
C6_ChainEndpoints ==
  pc = "runners_done" =>
    \A k \in 1..Len(df_runner_play.rows) :
      LET r == df_runner_play.rows[k]
          segs == RawSegmentsOf(r)
      IN  \A first, last \in segs :
            IsChain(segs, first, last) =>
              /\ r.startbase = FillBase(first.start)
              /\ r.endbase = BASE_MAP_REPLACE(FillBase(last.end))

(***************************************************************************)
(* main(): load the three tables, transform them, truncate the destination *)
(* tables, append the three results.                                       *)
(***************************************************************************)
\* load_all_csvs without the check for "no file found"
load_all_csvs_no_check(found, columns) ==
  [raised |-> "",
   value  |-> IF found = <<>> THEN NoFrame
              ELSE [columns |-> columns \cup {"source_folder_date"},
                    rows |-> [k \in 1..Len(found) |->
                                [c \in (DOMAIN found[k].row) \cup {"source_folder_date"} |->
                                   IF c = "source_folder_date" THEN found[k].folder_date
                                   ELSE found[k].row[c]]]]]

\* load_all_csvs: found is the rows of the files rglob finds, file after file, each
\* with the name of the folder of its file; no file at all raises FileNotFoundError,
\* else the rows are concatenated with a source_folder_date column
load_all_csvs(found, columns) ==
  IF found = <<>>
  THEN [raised |-> "FileNotFoundError", value |-> NoFrame]
  ELSE [raised |-> "",
        value  |-> [columns |-> columns \cup {"source_folder_date"},
                    rows |-> [k \in 1..Len(found) |->
                                [c \in (DOMAIN found[k].row) \cup {"source_folder_date"} |->
                                   IF c = "source_folder_date" THEN found[k].folder_date
                                   ELSE found[k].row[c]]]]]

\* c.lower() for the column names of the frames
Lower(c) == IF c = "gamePk" THEN "gamepk" ELSE c

\* to_sql_append: the rows under lowercased column names, appended to the table
to_sql_append(table, df) ==
  table \o [i \in 1..Len(df.rows) |->
              [c \in {Lower(d) : d \in DOMAIN df.rows[i]} |->
                 df.rows[i][CHOOSE d \in DOMAIN df.rows[i] : Lower(d) = c]]]

\* TRUNCATE TABLE runner_play, linescore, game
truncate_tables(tables) == [game |-> <<>>, linescore |-> <<>>, runner_play |-> <<>>]

Rows(folder, rows) == [k \in 1..Len(rows) |-> [folder_date |-> folder, row |-> rows[k]]]

GamesFile(folder, status) == Rows(folder, <<[gamePk |-> <<1>>, status |-> status]>>)

LineRowOf(n, h, r) ==
  [gamePk |-> <<1>>, inning |-> n, half |-> h,
   battingteamid |-> IF h = "TOP" THEN "A" ELSE "B", runs |-> r]

LinesFile(folder, rows) == Rows(folder, rows)

SegmentOf(from, to, out) ==
  [gamePk |-> <<1>>, atBatIndex |-> 0, playIndex |-> 0, runnerid |-> 8,
   runnerfullname |-> "Runner", originBase |-> <<"1B">>, start |-> <<from>>,
   end |-> <<to>>, isOut |-> out, eventtype |-> <<"single">>,
   movementreason |-> <<"r_adv_play">>, playid |-> "p0"]

\* what the data directory can hold for each table: no file, one extract, two
FoundGames ==
  {<<>>, GamesFile("2025-09-29", "Scheduled"),
   GamesFile("2025-09-29", "Scheduled") \o GamesFile("2025-10-01", "Final"),
   GamesFile("2025-10-01", "Final") \o GamesFile("2025-09-29", "Scheduled")}
FoundLinescores ==
  {<<>>,
   LinesFile("2025-09-29", <<LineRowOf(1, "TOP", <<2>>), LineRowOf(1, "BOT", NaN)>>),
   LinesFile("2025-09-29", <<LineRowOf(1, "TOP", <<2>>), LineRowOf(1, "BOT", NaN)>>)
     \o LinesFile("2025-10-01", <<LineRowOf(1, "TOP", <<2>>), LineRowOf(1, "BOT", <<0>>),
                                  LineRowOf(2, "TOP", <<1>>)>>)}
FoundRunners ==
  {<<>>,
   Rows("2025-09-29", <<SegmentOf("1B", "2B", FALSE)>>),
   Rows("2025-09-29", <<SegmentOf("1B", "2B", FALSE)>>)
     \o Rows("2025-10-01", <<SegmentOf("1B", "2B", FALSE), SegmentOf("2B", "3B", FALSE)>>)}

\* the destination tables before the run
OldTables == [game |-> <<[gamepk |-> <<9>>, status |-> "Final"]>>,
              linescore |-> <<>>, runner_play |-> <<>>]

Init ==
  /\ pc = "start"
  /\ files \in [exists : BOOLEAN, games : FoundGames, linescores : FoundLinescores,
                runners : FoundRunners]
  /\ db = OldTables
  /\ log = <<>>
  /\ raised = ""
  /\ df_games_raw = NoFrame
  /\ df_games = NoFrame
  /\ df_linescores_raw = NoFrame
  /\ df_linescores = NoFrame
  /\ df_runners_raw = NoFrame
  /\ df_runner_play = NoFrame
  /\ dedup_once = <<>>
  /\ dedup_twice = <<>>
  /\ df_again = NoFrame

\* if not data_dir.exists(): raise FileNotFoundError
MainStart ==
  /\ pc = "start"
  /\ IF files.exists
     THEN pc' = "load_games" /\ raised' = raised
     ELSE pc' = "aborted" /\ raised' = "FileNotFoundError"
  /\ UNCHANGED <<files, df_games_raw, df_games, df_linescores_raw, df_linescores,
                 df_runners_raw, df_runner_play, db, log, dedup_once, dedup_twice,
                 df_again>>

MainLoadGames ==
  /\ pc = "load_games"
  /\ LET r == load_all_csvs(files.games, GameColumns \ {"source_folder_date"})
     IN  /\ raised' = r.raised
         /\ df_games_raw' = r.value
         /\ pc' = IF r.raised = "" THEN "load_linescores" ELSE "aborted"
         /\ log' = IF r.raised = "" THEN Append(log, "load games.csv") ELSE log
  /\ UNCHANGED <<files, df_games, df_linescores_raw, df_linescores, df_runners_raw,
                 df_runner_play, db, dedup_once, dedup_twice, df_again>>

MainLoadLinescores ==
  /\ pc = "load_linescores"
  /\ LET r == load_all_csvs(files.linescores, LineColumns \ {"source_folder_date"})
     IN  /\ raised' = r.raised
         /\ df_linescores_raw' = r.value
         /\ pc' = IF r.raised = "" THEN "load_runners" ELSE "aborted"
         /\ log' = IF r.raised = "" THEN Append(log, "load linescores.csv") ELSE log
  /\ UNCHANGED <<files, df_games_raw, df_games, df_linescores, df_runners_raw,
                 df_runner_play, db, dedup_once, dedup_twice, df_again>>

MainLoadRunners ==
  /\ pc = "load_runners"
  /\ LET r == load_all_csvs(files.runners, RunnerColumns \ {"source_folder_date"})
     IN  /\ raised' = r.raised
         /\ df_runners_raw' = r.value
         /\ pc' = IF r.raised = "" THEN "process_games" ELSE "aborted"
         /\ log' = IF r.raised = "" THEN Append(log, "load runners.csv") ELSE log
  /\ UNCHANGED <<files, df_games_raw, df_games, df_linescores_raw, df_linescores,
                 df_runner_play, db, dedup_once, dedup_twice, df_again>>

MainProcessGames ==
  /\ pc = "process_games"
  /\ LET r == process_games(df_games_raw)
     IN  /\ raised' = r.raised
         /\ df_games' = r.value
         /\ pc' = IF r.raised = "" THEN "process_linescores" ELSE "aborted"
  /\ log' = Append(log, "process_games")
  /\ UNCHANGED <<files, df_games_raw, df_linescores_raw, df_linescores, df_runners_raw,
                 df_runner_play, db, dedup_once, dedup_twice, df_again>>

MainProcessLinescores ==
  /\ pc = "process_linescores"
  /\ df_linescores' = process_linescores(df_linescores_raw)
  /\ pc' = "process_runner_play"
  /\ log' = Append(log, "process_linescores")
  /\ UNCHANGED <<files, df_games_raw, df_games, df_linescores_raw, df_runners_raw,
                 df_runner_play, db, raised, dedup_once, dedup_twice, df_again>>

MainProcessRunnerPlay ==
  /\ pc = "process_runner_play"
  /\ df_runner_play' = process_runner_play(df_runners_raw)
  /\ pc' = "truncate"
  /\ log' = Append(log, "process_runner_play")
  /\ UNCHANGED <<files, df_games_raw, df_games, df_linescores_raw, df_linescores,
                 df_runners_raw, db, raised, dedup_once, dedup_twice, df_again>>

MainTruncate ==
  /\ pc = "truncate"
  /\ db' = truncate_tables(db)
  /\ pc' = "write_game"
  /\ log' = Append(log, "truncate")
  /\ UNCHANGED <<files, df_games_raw, df_games, df_linescores_raw, df_linescores,
                 df_runners_raw, df_runner_play, raised, dedup_once, dedup_twice,
                 df_again>>

MainWriteGame ==
  /\ pc = "write_game"
  /\ db' = [db EXCEPT !.game = to_sql_append(@, df_games)]
  /\ pc' = "write_linescore"
  /\ log' = Append(log, "write game")
  /\ UNCHANGED <<files, df_games_raw, df_games, df_linescores_raw, df_linescores,
                 df_runners_raw, df_runner_play, raised, dedup_once, dedup_twice,
                 df_again>>

MainWriteLinescore ==
  /\ pc = "write_linescore"
  /\ db' = [db EXCEPT !.linescore = to_sql_append(@, df_linescores)]
  /\ pc' = "write_runner_play"
  /\ log' = Append(log, "write linescore")
  /\ UNCHANGED <<files, df_games_raw, df_games, df_linescores_raw, df_linescores,
                 df_runners_raw, df_runner_play, raised, dedup_once, dedup_twice,
                 df_again>>

MainWriteRunnerPlay ==
  /\ pc = "write_runner_play"
  /\ db' = [db EXCEPT !.runner_play = to_sql_append(@, df_runner_play)]
  /\ pc' = "done"
  /\ log' = Append(log, "write runner_play")
  /\ UNCHANGED <<files, df_games_raw, df_games, df_linescores_raw, df_linescores,
                 df_runners_raw, df_runner_play, raised, dedup_once, dedup_twice,
                 df_again>>

\* a statement sent to the database fails: the exception ends the run
MainDatabaseError ==
  /\ pc \in {"truncate", "write_game", "write_linescore", "write_runner_play"}
  /\ raised' = "SQLAlchemyError"
  /\ pc' = "aborted"
  /\ UNCHANGED <<files, df_games_raw, df_games, df_linescores_raw, df_linescores,
                 df_runners_raw, df_runner_play, db, log, dedup_once, dedup_twice,
                 df_again>>

Next ==
  \/ MainStart \/ MainLoadGames \/ MainLoadLinescores \/ MainLoadRunners
  \/ MainProcessGames \/ MainProcessLinescores \/ MainProcessRunnerPlay
  \/ MainTruncate \/ MainWriteGame \/ MainWriteLinescore \/ MainWriteRunnerPlay
  \/ MainDatabaseError

Spec == Init /\ [][Next]_vars

(***************************************************************************)
(* Claims about main().                                                    *)
(***************************************************************************)
Transforms == {"process_games", "process_linescores", "process_runner_play"}
Writes == {"write game", "write linescore", "write runner_play"}
Logged(e) == \E i \in 1..Len(log) : log[i] = e
LoggedBefore(e, f) == \E i, j \in 1..Len(log) : i < j /\ log[i] = e /\ log[j] = f

\* C9: when a source table has no file, no transform runs, the destination tables
\* are neither truncated nor written, and the run ends with an error; in every run
\* the truncation comes after the three transforms and before the first write.
C9_AbortBeforeTransformsTruncateBeforeWrites ==
  /\ (files.games = <<>> \/ files.linescores = <<>> \/ files.runners = <<>>) =>
       /\ \A e \in Transforms \cup Writes \cup {"truncate"} : ~Logged(e)
       /\ db = OldTables
       /\ pc # "done"
       /\ pc \notin {"start", "load_games", "load_linescores", "load_runners"} =>
            (pc = "aborted" /\ raised = "FileNotFoundError")
  /\ Logged("truncate") => \A t \in Transforms : LoggedBefore(t, "truncate")
  /\ \A w \in Writes : Logged(w) => LoggedBefore("truncate", w)

\* the run that finds games and linescores but no runners file
C9_Witness ==
  /\ pc = "aborted"
  /\ raised = "FileNotFoundError"
  /\ files.runners = <<>>
  /\ log = <<"load games.csv", "load linescores.csv">>
  /\ db = OldTables

====
